---- MODULE Spec2Model ----
(***************************************************************************)
(* Model of tailcall-chunk (src/src/chunk.rs): the persistent Chunk<A>     *)
(* tree, its O(1) construction operators and the as_vec materialization.   *)
(*                                                                         *)
(* A Chunk<A> value is a record tagged with its enum variant.  An          *)
(* Rc<Chunk<A>> child is the child value itself: Rc gives shared,          *)
(* read-only ownership, so a child is never written after Rc::new.         *)
(* The caller's live chunk values are the slots of `chunks`; an operation  *)
(* works on a clone of a slot and stores what it returns in a new slot.    *)
(***************************************************************************)
EXTENDS Integers, Sequences, FiniteSets, TLC

\* ---------------------------------------------------------------- bounds
MaxChunks == 4      \* live chunk values the caller holds
MaxElem == 2        \* elements appended by the caller are 1..MaxElem
MaxLen == 3         \* longest sequence folded into an append chain

Elems == 1..MaxElem

\* every sequence over Elems of length at most MaxLen
BoundedSeqs == UNION {[1..n -> Elems] : n \in 0..MaxLen}

\* ------------------------------------------------------- enum Chunk<A>
Empty == [tag |-> "Empty"]

\* impl Default for Chunk<A>
Default == Empty

is_null(c) == c.tag = "Empty"

append(c, a) == [tag |-> "Append", a |-> a, rest |-> c]

\* a new that drops its argument and hands back the empty chunk
new_empty(a) == Default

\* Chunk::new(a) of chunk.rs: Chunk::default().append(a)
new(a) == append(Default, a)

\* concat that always builds the Concat node
concat_no_short_circuit(c, other) == [tag |-> "Concat", l |-> c, r |-> other]

\* concat whose second early return hands back the empty operand
concat_returns_other(c, other) ==
    IF is_null(c) THEN other
    ELSE IF is_null(other) THEN other
    ELSE [tag |-> "Concat", l |-> c, r |-> other]

concat(c, other) ==
    IF is_null(c) THEN other
    ELSE IF is_null(other) THEN c
    ELSE [tag |-> "Concat", l |-> c, r |-> other]

transform_flatten(c, f) == [tag |-> "TransformFlatten", base |-> c, f |-> f]

\* the closure `move |a| Chunk::new(f(a))` that transform stores
MapClosure(f) == [kind |-> "map", id |-> f]

\* a closure returning a chunk, handed to transform_flatten as it is
FlatClosure(f) == [kind |-> "flat", id |-> f]

transform(c, f) == transform_flatten(c, MapClosure(f))

\* Chunk::default().append(S[1]).append(S[2])... : one append per element
RECURSIVE AppendAll(_, _)
AppendAll(c, S) ==
    IF S = <<>> THEN c ELSE AppendAll(append(c, Head(S)), Tail(S))

RECURSIVE Reverse(_)
Reverse(S) == IF S = <<>> THEN <<>> ELSE Append(Reverse(Tail(S)), Head(S))

\* ------------------------------------------- caller-supplied functions
\* element functions used with transform (tests::test_transform)
ElemFnIds == {"double", "inc"}

ElemFn(id, x) ==
    CASE id = "double" -> x * 2
      [] id = "inc"    -> x + 1

\* chunk-valued functions used with transform_flatten
\* (tests::test_transform_flatten)
ChunkFnIds == {"pair", "even"}

ChunkFn(id, x) ==
    CASE id = "pair" -> append(append(Default, x), x + 1)
      [] id = "even" -> IF x % 2 = 0 THEN new(x) ELSE Default

\* the closure of transform that wraps the element without applying f
MapClosureBody_forgets_f(f, a) == new(a)

\* body of the closure transform stores: Chunk::new(f(a))
MapClosureBody(f, a) == new(ElemFn(f, a))

\* `f(elem)`: invoking a stored closure on one element
Call(f, x) ==
    IF f.kind = "map" THEN MapClosureBody(f.id, x) ELSE ChunkFn(f.id, x)

Closures == {MapClosure(f) : f \in ElemFnIds} \cup {FlatClosure(f) : f \in ChunkFnIds}

\* ------------------------------------------------------ materialization
\* as_vec_mut threads the output buffer; `log` records, in order, every
\* invocation of a stored closure made on the way.
RECURSIVE as_vec_mut(_, _)
RECURSIVE ForEach(_, _, _, _)

\* as_vec_mut with the Append arm pushing the value before visiting rest
as_vec_mut_push_first(c, st) ==
    CASE c.tag = "Empty" -> st
      [] c.tag = "Append" ->
            as_vec_mut(c.rest, [st EXCEPT !.buf = Append(@, c.a)])
      [] c.tag = "Concat" ->
            as_vec_mut(c.r, as_vec_mut(c.l, st))
      [] c.tag = "TransformFlatten" ->
            LET t == as_vec_mut(c.base, [st EXCEPT !.buf = <<>>])
            IN  ForEach(t.buf, 1, c.f, [st EXCEPT !.log = t.log])

\* as_vec_mut with the Concat arm visiting the right operand first
as_vec_mut_right_first(c, st) ==
    CASE c.tag = "Empty" -> st
      [] c.tag = "Append" ->
            LET s1 == as_vec_mut(c.rest, st)
            IN  [s1 EXCEPT !.buf = Append(@, c.a)]
      [] c.tag = "Concat" ->
            as_vec_mut(c.l, as_vec_mut(c.r, st))
      [] c.tag = "TransformFlatten" ->
            LET t == as_vec_mut(c.base, [st EXCEPT !.buf = <<>>])
            IN  ForEach(t.buf, 1, c.f, [st EXCEPT !.log = t.log])

as_vec_mut(c, st) ==
    CASE c.tag = "Empty" -> st
      [] c.tag = "Append" ->
            LET s1 == as_vec_mut(c.rest, st)
            IN  [s1 EXCEPT !.buf = Append(@, c.a)]
      [] c.tag = "Concat" ->
            as_vec_mut(c.r, as_vec_mut(c.l, st))
      [] c.tag = "TransformFlatten" ->
            LET t == as_vec_mut(c.base, [st EXCEPT !.buf = <<>>])
            IN  ForEach(t.buf, 1, c.f, [st EXCEPT !.log = t.log])

\* the loop walking tmp from its last element to its first
ForEach_reversed(tmp, k, f, st) ==
    IF k > Len(tmp) THEN st
    ELSE ForEach(tmp, k + 1, f,
                 as_vec_mut(Call(f, tmp[Len(tmp) - k + 1]),
                            [st EXCEPT !.log = Append(@, <<f, tmp[Len(tmp) - k + 1]>>)]))

\* `for elem in tmp.into_iter() { f(elem).as_vec_mut(buf); }`
ForEach(tmp, k, f, st) ==
    IF k > Len(tmp) THEN st
    ELSE ForEach(tmp, k + 1, f,
                 as_vec_mut(Call(f, tmp[k]),
                            [st EXCEPT !.log = Append(@, <<f, tmp[k]>>)]))

Materialize(c) == as_vec_mut(c, [buf |-> <<>>, log |-> <<>>])

as_vec(c) == Materialize(c).buf

\* The call stack of as_vec_mut: the largest number of as_vec_mut frames
\* that are active at the same time while as_vec_mut(c, _) runs. Every arm
\* calls as_vec_mut on its children from inside the running frame.
Max2(m, n) == IF m >= n THEN m ELSE n

RECURSIVE as_vec_mut_depth(_)
RECURSIVE ForEachDepth(_, _, _)
as_vec_mut_depth(c) ==
    CASE c.tag = "Empty" -> 1
      [] c.tag = "Append" -> 1 + as_vec_mut_depth(c.rest)
      [] c.tag = "Concat" ->
            1 + Max2(as_vec_mut_depth(c.l), as_vec_mut_depth(c.r))
      [] c.tag = "TransformFlatten" ->
            1 + Max2(as_vec_mut_depth(c.base),
                     ForEachDepth(as_vec(c.base), 1, c.f))

\* for elem in tmp.into_iter() { f(elem).as_vec_mut(buf); }
ForEachDepth(tmp, k, f) ==
    IF k > Len(tmp) THEN 0
    ELSE Max2(as_vec_mut_depth(Call(f, tmp[k])), ForEachDepth(tmp, k + 1, f))

\* ---------------------------------------------------------------- state
\* chunks: the chunk values the caller holds
\* op:     the last operation: its name, the chunk it was called on (c)
\*         and its argument (x)
\* ret:    the chunk the last operation returned (Empty if it returned a Vec)
\* vec:    the Vec the last operation returned (empty if it returned a chunk)
\* log:    the closure invocations the last operation made, in order
VARIABLES chunks, op, ret, vec, log

vars == <<chunks, op, ret, vec, log>>

\* let chunk = Chunk::default();
Init ==
    /\ chunks = {Default}
    /\ op = [name |-> "default", c |-> Default, x |-> 0]
    /\ ret = Default
    /\ vec = <<>>
    /\ log = <<>>

\* an append that leaves its result in place of the chunk it was called on
AppendOp_in_place(c, a) ==
    /\ Cardinality(chunks) < MaxChunks
    /\ ret' = append(c, a)
    /\ chunks' = (chunks \ {c}) \cup {ret'}
    /\ op' = [name |-> "append", c |-> c, x |-> a]
    /\ vec' = <<>>
    /\ log' = <<>>

\* c.clone().append(a)
AppendOp(c, a) ==
    /\ Cardinality(chunks) < MaxChunks
    /\ ret' = append(c, a)
    /\ chunks' = chunks \cup {ret'}
    /\ op' = [name |-> "append", c |-> c, x |-> a]
    /\ vec' = <<>>
    /\ log' = <<>>

\* c.clone().concat(other.clone())
ConcatOp(c, other) ==
    /\ Cardinality(chunks) < MaxChunks
    /\ ret' = concat(c, other)
    /\ chunks' = chunks \cup {ret'}
    /\ op' = [name |-> "concat", c |-> c, x |-> other]
    /\ vec' = <<>>
    /\ log' = <<>>

\* c.clone().transform(f)
TransformOp(c, f) ==
    /\ Cardinality(chunks) < MaxChunks
    /\ ret' = transform(c, f)
    /\ chunks' = chunks \cup {ret'}
    /\ op' = [name |-> "transform", c |-> c, x |-> f]
    /\ vec' = <<>>
    /\ log' = <<>>

\* a transform_flatten that runs f over the chunk right away
TransformFlattenOp_eager(c, f) ==
    /\ Cardinality(chunks) < MaxChunks
    /\ ret' = transform_flatten(c, FlatClosure(f))
    /\ chunks' = chunks \cup {ret'}
    /\ op' = [name |-> "transform_flatten", c |-> c, x |-> f]
    /\ vec' = <<>>
    /\ log' = Materialize(ret').log

\* c.clone().transform_flatten(f)
TransformFlattenOp(c, f) ==
    /\ Cardinality(chunks) < MaxChunks
    /\ ret' = transform_flatten(c, FlatClosure(f))
    /\ chunks' = chunks \cup {ret'}
    /\ op' = [name |-> "transform_flatten", c |-> c, x |-> f]
    /\ vec' = <<>>
    /\ log' = <<>>

\* c.as_vec()
AsVecOp(c) ==
    /\ LET r == Materialize(c)
       IN  /\ vec' = r.buf
           /\ log' = r.log
    /\ op' = [name |-> "as_vec", c |-> c, x |-> 0]
    /\ ret' = Default
    /\ UNCHANGED chunks

\* Chunk::default()
DefaultOp ==
    /\ ret' = Default
    /\ chunks' = chunks \cup {ret'}
    /\ op' = [name |-> "default", c |-> Default, x |-> 0]
    /\ vec' = <<>>
    /\ log' = <<>>

\* Chunk::new(a)
NewOp(a) ==
    /\ Cardinality(chunks) < MaxChunks
    /\ ret' = new(a)
    /\ chunks' = chunks \cup {ret'}
    /\ op' = [name |-> "new", c |-> Default, x |-> a]
    /\ vec' = <<>>
    /\ log' = <<>>

Next ==
    \/ DefaultOp
    \/ \E a \in Elems : NewOp(a)
    \/ \E c \in chunks, a \in Elems : AppendOp(c, a)
    \/ \E c \in chunks, other \in chunks : ConcatOp(c, other)
    \/ \E c \in chunks, f \in ElemFnIds : TransformOp(c, f)
    \/ \E c \in chunks, f \in ChunkFnIds : TransformFlattenOp(c, f)
    \/ \E c \in chunks : AsVecOp(c)

Spec == Init /\ [][Next]_vars

\* ------------------------------------------------------ lib.rs variant
\* src/src/lib.rs holds a second Chunk<A>: Empty, Append and Concat only,
\* new() without argument, as_vec returning references to the elements
\* (modelled as the elements they refer to).
lib_new == [tag |-> "Empty"]

\* impl Default for Chunk<A> of lib.rs: Self::new()
lib_default == lib_new

lib_is_null(c) == c.tag = "Empty"

lib_append(c, a) == [tag |-> "Append", a |-> a, rest |-> c]

lib_concat(c, other) ==
    IF lib_is_null(c) THEN other
    ELSE IF lib_is_null(other) THEN c
    ELSE [tag |-> "Concat", l |-> c, r |-> other]

RECURSIVE lib_as_vec_mut(_, _)
lib_as_vec_mut(c, buf) ==
    CASE c.tag = "Empty" -> buf
      [] c.tag = "Append" -> Append(lib_as_vec_mut(c.rest, buf), c.a)
      [] c.tag = "Concat" -> lib_as_vec_mut(c.l, lib_as_vec_mut(c.r, buf))

lib_as_vec(c) == lib_as_vec_mut(c, <<>>)

\* Chunk::new().append(S[1]).append(S[2])..., as in the doc examples
RECURSIVE LibAppendAll(_, _)
LibAppendAll(c, S) ==
    IF S = <<>> THEN c ELSE LibAppendAll(lib_append(c, Head(S)), Tail(S))

\* let chunk = Chunk::new();
LibInit ==
    /\ chunks = {lib_new}
    /\ op = [name |-> "new", c |-> lib_new, x |-> 0]
    /\ ret = lib_new
    /\ vec = <<>>
    /\ log = <<>>

\* Chunk::default()
LibDefaultOp ==
    /\ ret' = lib_default
    /\ chunks' = chunks \cup {ret'}
    /\ op' = [name |-> "default", c |-> lib_new, x |-> 0]
    /\ vec' = <<>>
    /\ log' = <<>>

\* c.clone().append(a)
LibAppendOp(c, a) ==
    /\ Cardinality(chunks) < MaxChunks
    /\ ret' = lib_append(c, a)
    /\ chunks' = chunks \cup {ret'}
    /\ op' = [name |-> "append", c |-> c, x |-> a]
    /\ vec' = <<>>
    /\ log' = <<>>

\* c.clone().concat(other.clone())
LibConcatOp(c, other) ==
    /\ Cardinality(chunks) < MaxChunks
    /\ ret' = lib_concat(c, other)
    /\ chunks' = chunks \cup {ret'}
    /\ op' = [name |-> "concat", c |-> c, x |-> other]
    /\ vec' = <<>>
    /\ log' = <<>>

\* c.as_vec()
LibAsVecOp(c) ==
    /\ vec' = lib_as_vec(c)
    /\ op' = [name |-> "as_vec", c |-> c, x |-> 0]
    /\ ret' = lib_new
    /\ log' = <<>>
    /\ UNCHANGED chunks

LibNext ==
    \/ LibDefaultOp
    \/ \E c \in chunks, a \in Elems : LibAppendOp(c, a)
    \/ \E c \in chunks, other \in chunks : LibConcatOp(c, other)
    \/ \E c \in chunks : LibAsVecOp(c)

SpecLib == LibInit /\ [][LibNext]_vars

\* ---------------------------------------------------------------- claims
\* Every held chunk is the initial Chunk::default() or was returned by a
\* construction operation, and is never changed afterwards (C3).  A law
\* over pairs or triples of held chunks is therefore stated on the pairs
\* and triples that include `ret`, in the state where `ret` was returned:
\* a pair or triple is complete from the moment its last member exists.
Constructed == op.name # "as_vec"

\* c is Chunk::default() followed by appends only
RECURSIVE IsAppendChain(_)
IsAppendChain(c) ==
    \/ c.tag = "Empty"
    \/ c.tag = "Append" /\ IsAppendChain(c.rest)

\* the round trip on every bounded S, on the documented 1,2,3 and on Empty
RoundTripOnBoundedSeqs ==
    /\ \A S \in BoundedSeqs : as_vec(AppendAll(Default, S)) = S
    /\ as_vec(AppendAll(Default, <<1, 2, 3>>)) = <<1, 2, 3>>
    /\ as_vec(Empty) = <<>>

C3_Persistence ==
    [][/\ \A X \in chunks : X \in chunks'
       /\ chunks' \subseteq chunks \cup {ret'}
       /\ op'.name = "as_vec" => chunks' = chunks]_vars

\* X = [1] was extended twice, to [1,1] and to [1,2], then materialized
C3_Witness ==
    /\ chunks = {Default, new(1), append(new(1), 1), append(new(1), 2)}
    /\ op.name = "as_vec" /\ op.c = new(1)
    /\ vec = <<1>>

\* the materializations of f(a), for the elements a of S in order, joined
RECURSIVE FlatMap(_, _)
FlatMap(f, S) ==
    IF S = <<>> THEN <<>> ELSE as_vec(Call(f, Head(S))) \o FlatMap(f, Tail(S))

\* C4: X.transform_flatten(f) materializes to the concatenation, over the
\* elements a of X.as_vec() in order, of f(a).as_vec(): for every returned
\* X (TransformFlatten chunks included) and every f (one returns Empty for
\* odd elements), for [1,2] with x -> [x, x+1], and for every as_vec the
\* caller ran on a TransformFlatten chunk.
C4_FlatMapLaw ==
    /\ \A f \in ChunkFnIds :
          as_vec(transform_flatten(ret, FlatClosure(f)))
              = FlatMap(FlatClosure(f), as_vec(ret))
    /\ as_vec(transform_flatten(AppendAll(Default, <<1, 2>>), FlatClosure("pair")))
          = <<1, 2, 2, 3>>
    /\ (op.name = "as_vec" /\ op.c.tag = "TransformFlatten") =>
          vec = FlatMap(op.c.f, as_vec(op.c.base))

\* [1] expanded to [1,2], then filtered to the even elements
C4_Witness ==
    /\ op.name = "as_vec"
    /\ op.c = transform_flatten(transform_flatten(new(1), FlatClosure("pair")),
                                  FlatClosure("even"))
    /\ vec = <<2>>

\* the elements of S through an element function
MapSeq(f, S) == [k \in 1..Len(S) |-> ElemFn(f, S[k])]

\* C5: X.transform(f) materializes to as many elements as X, the i-th
\* being f of the i-th of X; X.transform(f).transform(g) materializes to
\* g(f(x)) element by element; for every returned chunk X and all f, g.
C5_MapLaw ==
    /\ \A f \in ElemFnIds :
          LET S == as_vec(ret)
              R == as_vec(transform(ret, f))
          IN  /\ Len(R) = Len(S)
              /\ \A k \in 1..Len(S) : R[k] = ElemFn(f, S[k])
              /\ \A g \in ElemFnIds :
                    as_vec(transform(transform(ret, f), g))
                        = [k \in 1..Len(S) |-> ElemFn(g, ElemFn(f, S[k]))]
    /\ (op.name = "as_vec" /\ op.c.tag = "TransformFlatten" /\ op.c.f.kind = "map") =>
          vec = MapSeq(op.c.f.id, as_vec(op.c.base))

\* [1] incremented, then doubled
C5_Witness ==
    /\ op.name = "as_vec"
    /\ op.c = transform(transform(new(1), "inc"), "double")
    /\ vec = <<4>>

\* C6: concat(concat(X, Y), Z) and concat(X, concat(Y, Z)) materialize to
\* the same sequence for all held X, Y, Z, empty ones included; when none
\* is empty the two trees differ.
C6_ConcatAssociative ==
    Constructed =>
    \A X \in chunks, Y \in chunks, Z \in chunks :
        ret \in {X, Y, Z} =>
        LET L == concat(concat(X, Y), Z)
            R == concat(X, concat(Y, Z))
        IN  /\ as_vec(L) = as_vec(R)
            /\ (~is_null(X) /\ ~is_null(Y) /\ ~is_null(Z)) => L # R

\* a left-nested concat of three non-empty chunks was built and materialized
C6_Witness ==
    /\ op.name = "as_vec"
    /\ op.c = concat(concat(new(1), new(1)), new(1))
    /\ op.c.l.tag = "Concat"
    /\ vec = <<1, 1, 1>>

\* the closures stored in the TransformFlatten nodes of c
RECURSIVE HeldClosures(_)
HeldClosures(c) ==
    CASE c.tag = "Empty" -> {}
      [] c.tag = "Append" -> HeldClosures(c.rest)
      [] c.tag = "Concat" -> HeldClosures(c.l) \cup HeldClosures(c.r)
      [] c.tag = "TransformFlatten" -> {c.f} \cup HeldClosures(c.base)

\* how many entries of the invocation log are calls of f
Invocations(f, L) == Cardinality({k \in 1..Len(L) : L[k][1] = f})

\* C7: a construction operation (append, concat, transform,
\* transform_flatten) invokes no stored function, so with no as_vec there
\* are no invocations at all; as_vec invokes only closures held by
\* TransformFlatten nodes of the chunk it walks, the outermost one once per
\* element of its base.
C7_DeferredExecution ==
    /\ op.name # "as_vec" => log = <<>>
    /\ op.name = "as_vec" =>
          /\ \A k \in 1..Len(log) : log[k][1] \in HeldClosures(op.c)
          /\ (op.c.tag = "TransformFlatten" /\ op.c.f \notin HeldClosures(op.c.base)) =>
                Invocations(op.c.f, log) = Len(as_vec(op.c.base))

\* transform_flatten was called on a chunk with elements and ran nothing
C7_Witness ==
    /\ op.name = "transform_flatten"
    /\ op.c = AppendAll(Default, <<1, 2>>)
    /\ ret.tag = "TransformFlatten"
    /\ log = <<>>

\* no Concat node of c has the Empty variant as a child
RECURSIVE NoEmptyOperand(_)
NoEmptyOperand(c) ==
    CASE c.tag = "Empty" -> TRUE
      [] c.tag = "Append" -> NoEmptyOperand(c.rest)
      [] c.tag = "Concat" ->
            /\ ~is_null(c.l) /\ ~is_null(c.r)
            /\ NoEmptyOperand(c.l) /\ NoEmptyOperand(c.r)
      [] c.tag = "TransformFlatten" -> NoEmptyOperand(c.base)

\* no stored function returns a chunk with an Empty operand in a Concat
ClosureResultsNoEmptyOperand ==
    \A f \in Closures, a \in Elems : NoEmptyOperand(Call(f, a))

\* C8: concat(Empty, X) is X itself and concat(X, Empty) is X itself (so
\* both materialize as X, and concat(Empty, Empty) is Empty); no Concat
\* node of a held chunk, or of a chunk a stored function returns, has an
\* Empty child.
C8_ConcatShortCircuit ==
    /\ \A X \in chunks :
          /\ concat(Empty, X) = X /\ concat(X, Empty) = X
          /\ as_vec(concat(Empty, X)) = as_vec(X)
          /\ as_vec(concat(X, Empty)) = as_vec(X)
          /\ NoEmptyOperand(X)
    /\ concat(Empty, Empty) = Empty
    /\ op.name = "concat" =>
          /\ is_null(op.c) => ret = op.x
          /\ is_null(op.x) => ret = op.c
    /\ ClosureResultsNoEmptyOperand

\* concat of Empty with a Concat chunk handed that chunk back
C8_Witness ==
    /\ op.name = "concat"
    /\ is_null(op.c)
    /\ op.x = concat(new(1), new(1))
    /\ ret = op.x

\* C9: a held chunk materializes to the empty sequence if and only if it
\* is the Empty variant (is_null).
C9_EmptyUnique ==
    \A X \in chunks : (as_vec(X) = <<>>) <=> is_null(X)

\* C9 as amended: Empty materializes to the empty sequence, and a held
\* chunk with no TransformFlatten node materializes to the empty sequence
\* only if it is Empty.
C9_EmptyUniqueWithoutTransform ==
    /\ \A X \in chunks :
          /\ is_null(X) => as_vec(X) = <<>>
          /\ HeldClosures(X) = {} => ((as_vec(X) = <<>>) <=> is_null(X))
    /\ (op.name = "as_vec" /\ HeldClosures(op.c) = {}) =>
          ((vec = <<>>) <=> is_null(op.c))

\* concat(Empty, Empty) was built beside a Concat chunk and materialized
C9_Witness ==
    /\ op.name = "as_vec"
    /\ is_null(op.c)
    /\ vec = <<>>
    /\ concat(new(1), new(2)) \in chunks

\* C10: the doc examples of chunk.rs: as_vec of a chain built by appending
\* S lists the most recently appended element first (1,2,3 gives [3,2,1]),
\* as_vec of a concat of two such chains lists each operand that way
\* ([1,2] with [3,4] gives [2,1,4,3]), and as_vec of a transform of a chain
\* likewise (1,2,3 doubled gives [6,4,2]).
C10_DocumentedOrder ==
    op.name = "as_vec" =>
        \A S \in BoundedSeqs :
            /\ op.c = AppendAll(Default, S) => vec = Reverse(S)
            /\ \A T \in BoundedSeqs :
                  op.c = concat(AppendAll(Default, S), AppendAll(Default, T))
                      => vec = Reverse(S) \o Reverse(T)
            /\ \A f \in ElemFnIds :
                  op.c = transform(AppendAll(Default, S), f)
                      => vec = Reverse(MapSeq(f, S))

\* C11: in the lib.rs variant, as_vec of X.concat(Y) for non-empty X and Y
\* lists X's elements first, then Y's, each group in append order
\* (new().append(1).append(2) with new().append(3).append(4) gives
\* [&1, &2, &3, &4]).
C11_LibConcatOrder ==
    (op.name = "as_vec" /\ op.c.tag = "Concat") =>
        /\ vec = lib_as_vec(op.c.l) \o lib_as_vec(op.c.r)
        /\ \A S \in BoundedSeqs, T \in BoundedSeqs :
              (op.c.l = LibAppendAll(lib_new, S) /\ op.c.r = LibAppendAll(lib_new, T))
                  => vec = S \o T

\* C12: materialization has a bounded call depth: for a chunk built by n
\* sequential appends, the number of as_vec_mut invocations active at the
\* same time does not grow with n (n appends need no more frames than one
\* append does).
C12_BoundedCallDepth ==
    (op.name = "as_vec" /\ IsAppendChain(op.c)) =>
        as_vec_mut_depth(op.c) <= as_vec_mut_depth(new(1))

LibNewAndDefaultEmpty ==
    /\ lib_new = [tag |-> "Empty"]
    /\ lib_default = lib_new
    /\ lib_is_null(lib_new)
    /\ lib_as_vec(lib_new) = <<>>
    /\ \A a \in Elems : ~lib_is_null(lib_append(lib_new, a))

====
